---- MODULE Spec2Model ----
(***************************************************************************)
(* Model of dust_monitoring_app.py: the DustSuppressionController and the  *)
(* DustMonitoringApp that drives it from main().                           *)
(*                                                                         *)
(* Units.  PM readings and thresholds are integers counting tenths of a    *)
(* ug/m3 (47.5 is 475, 50.0 is 500).  intensity counts tenths (1.0 is 10,  *)
(* 0.6 is 6), duration counts minutes, water_usage counts litres and       *)
(* energy counts tenths of a kWh (4.5 is 45, 15 is 150).  Raw draws of the *)
(* random generator count hundredths of a ug/m3, so that round(1) has      *)
(* something to round.  The comparisons of the code are made exactly; for  *)
(* the thresholds of Thresholds and every reading on the 0.1 grid the      *)
(* double arithmetic of the code gives the same answers.                   *)
(***************************************************************************)
EXTENDS Integers, Sequences, FiniteSets, TLC

VARIABLES controller, calls, created, page, button, csv_case, ui, raised,
          pm_levels, results

vars == <<controller, calls, created, page, button, csv_case, ui, raised,
          pm_levels, results>>

(* ------------------------------ bounds -------------------------------- *)

\* calls made on one controller in the controller-only specification
MaxCalls == 3
\* samples of one Run Simulation (the slider allows 1..20)
MaxSamples == 3
\* runs of main() in one session
MaxRuns == 3

(* ------------------------- program constants -------------------------- *)

\* DustMonitoringApp.__init__: threshold_pm=50.0
AppThreshold == 500
\* number_input max_value=500.0
ManualMax == 5000
\* np.clip(..., 5, 200), in hundredths
ClipLo == 500
ClipHi == 20000

(* --------------------------- input domains ---------------------------- *)

\* thresholds a controller is constructed with: -1.0, 0, 1.0 and 50.0
Thresholds == {-10, 0, 10, AppThreshold}

\* readings passed to evaluate_and_control, around every band edge; the
\* callers pass readings of at least 0 (number_input min_value, np.clip)
Readings == {0, 9, 10, 11, 475, 476, 500, 501}

\* the timestamp argument: <<>> is None (the default), <<s>> is the label s
NoTimestamp == <<>>
Timestamps == {NoTimestamp, <<"">>, <<"t1">>}

\* values of the Manual Demo number_input (0.0 .. 500.0)
ManualInputs == {0, 300, 475, 476, 500, 501, ManualMax}

\* raw draws of np.random.exponential(scale=30), in hundredths
RawDraws == {0, 4749, 4755, 5004, 5006, 99999}

\* no CSV file is read by the run
NoCsv == [has_pm |-> FALSE, fails |-> "none", error |-> "unread"]

(* ---------------------- DustSuppressionController --------------------- *)

\* __init__(threshold_pm)
NewController(threshold_pm) ==
    [threshold_pm |-> threshold_pm, suppression_history |-> <<>>]

\* variant: the band edge itself activates (>= for >)
AboveBandInclusive(self, predicted_pm) == 100 * predicted_pm >= 95 * self.threshold_pm

\* predicted_pm > self.threshold_pm * 0.95
AboveBand(self, predicted_pm) == 100 * predicted_pm > 95 * self.threshold_pm

\* variant: the threshold itself is HIGH (>= for >)
AboveThresholdInclusive(self, predicted_pm) == predicted_pm >= self.threshold_pm

\* predicted_pm > self.threshold_pm
AboveThreshold(self, predicted_pm) == predicted_pm > self.threshold_pm

\* level, as assigned by the defaults and the two branches
LevelOf(self, predicted_pm) ==
    IF AboveBand(self, predicted_pm)
    THEN IF AboveThreshold(self, predicted_pm) THEN "HIGH" ELSE "MEDIUM"
    ELSE "LOW"

\* variant: a MEDIUM reading is sprayed at full strength once the log is not empty
IntensityEscalating(self, level) ==
    CASE level = "HIGH" -> 10
      [] level = "MEDIUM" -> IF self.suppression_history = <<>> THEN 6 ELSE 10
      [] OTHER -> 0

\* intensity, in tenths
IntensityOf(self, level) ==
    CASE level = "HIGH" -> 10
      [] level = "MEDIUM" -> 6
      [] OTHER -> 0

\* variant: the MEDIUM branch keeps the duration of the HIGH branch
DurationCopied(level) ==
    CASE level = "HIGH" -> 30
      [] level = "MEDIUM" -> 30
      [] OTHER -> 0

\* duration, in minutes
DurationOf(level) ==
    CASE level = "HIGH" -> 30
      [] level = "MEDIUM" -> 15
      [] OTHER -> 0

\* action = "ACTIVATE" inside the outer branch, "NONE" by default
ActionOf(level) == IF level = "LOW" THEN "NONE" ELSE "ACTIVATE"

\* water_usage = intensity * duration * 10, in litres
WaterUsage(intensity, duration) == (intensity * duration * 10) \div 10

\* energy = intensity * duration * 0.5, in tenths of a kWh
Energy(intensity, duration) == (intensity * duration * 5) \div 10

\* timestamp or 'now'
TimestampOf(timestamp) ==
    IF timestamp # NoTimestamp /\ timestamp[1] # "" THEN timestamp[1] ELSE "now"

\* the result dictionary
ResultOf(self, predicted_pm, timestamp) ==
    LET level == LevelOf(self, predicted_pm)
        intensity == IntensityOf(self, level)
        duration == DurationOf(level)
        action == ActionOf(level)
    IN [timestamp |-> TimestampOf(timestamp),
        predicted_pm |-> predicted_pm,
        level |-> level,
        intensity |-> intensity,
        duration |-> duration,
        action |-> action,
        water_usage |-> IF action = "ACTIVATE" THEN WaterUsage(intensity, duration) ELSE 0,
        energy |-> IF action = "ACTIVATE" THEN Energy(intensity, duration) ELSE 0]

\* variant: every result is logged
LoggedAlways(self, result) ==
    [self EXCEPT !.suppression_history = Append(@, result)]

\* variant: insert(0, result) for append(result)
LoggedFirst(self, result) ==
    IF result.action = "ACTIVATE"
    THEN [self EXCEPT !.suppression_history = <<result>> \o @]
    ELSE self

\* if action == "ACTIVATE": self.suppression_history.append(result)
Logged(self, result) ==
    IF result.action = "ACTIVATE"
    THEN [self EXCEPT !.suppression_history = Append(@, result)]
    ELSE self

\* evaluate_and_control: the returned record and the controller afterwards
evaluate_and_control(self, predicted_pm, timestamp) ==
    LET result == ResultOf(self, predicted_pm, timestamp)
    IN [result |-> result, self |-> Logged(self, result)]

\* one entry of the call history
CallEntry(predicted_pm, timestamp, before, out) ==
    [predicted_pm |-> predicted_pm, timestamp |-> timestamp,
     before |-> before, result |-> out.result, after |-> out.self]

(* ------------------- controller-only specification -------------------- *)

CtlInit ==
    /\ controller \in {NewController(t) : t \in Thresholds}
    /\ calls = <<>>
    /\ created = 1
    /\ page = "none"
    /\ button = "none"
    /\ csv_case = NoCsv
    /\ ui = <<>>
    /\ raised = "none"
    /\ pm_levels = <<>>
    /\ results = <<>>

EvaluateCall(predicted_pm, timestamp) ==
    /\ Len(calls) < MaxCalls
    /\ LET out == evaluate_and_control(controller, predicted_pm, timestamp)
       IN /\ controller' = out.self
          /\ calls' = Append(calls, CallEntry(predicted_pm, timestamp, controller, out))
    /\ UNCHANGED <<created, page, button, csv_case, ui, raised, pm_levels, results>>

CtlNext == \E predicted_pm \in Readings, timestamp \in Timestamps :
               EvaluateCall(predicted_pm, timestamp)

CtlSpec == CtlInit /\ [][CtlNext]_vars

(* -------------------------- DustMonitoringApp ------------------------- *)

\* the exception classes the steps of data_analysis raise
ExceptionClasses == {"FileNotFoundError", "ParserError", "TypeError", "ValueError"}

\* the CSV file as data_analysis meets it: whether it has a PM column, and
\* the step that fails on it (with the exception raised), if any
CsvSteps == {"read_csv", "head", "describe", "exceedances", "histogram"}
CsvCases ==
    [has_pm : BOOLEAN, fails : {"none"}, error : {"none"}]
    \cup [has_pm : BOOLEAN, fails : CsvSteps, error : ExceptionClasses]

\* DustMonitoringApp.__init__
NewApp == [controller |-> NewController(AppThreshold)]

\* variant: except FileNotFoundError as e
CaughtMissingFile(error) == error = "FileNotFoundError"

\* except Exception as e
Caught(error) == error \in ExceptionClasses

\* the statements of the try block, in order
TrySteps(case) ==
    <<"read_csv", "head", "describe">>
    \o (IF case.has_pm THEN <<"exceedances", "histogram">> ELSE <<>>)

\* data_analysis: what is displayed, the exception leaving it, the controller
data_analysis(self, case) ==
    LET steps == TrySteps(case)
        failing == {i \in 1..Len(steps) : steps[i] = case.fails}
        done == IF failing = {} THEN steps
                ELSE SubSeq(steps, 1, (CHOOSE i \in failing : TRUE) - 1)
        shown == <<"subheader">> \o done
    IN IF failing = {}
       THEN [ui |-> shown, raised |-> "none", controller |-> self.controller]
       ELSE IF Caught(case.error)
            THEN [ui |-> Append(shown, "error"), raised |-> "none",
                  controller |-> self.controller]
            ELSE [ui |-> shown, raised |-> case.error,
                  controller |-> self.controller]

\* the widgets shown for one result by _display_results
ResultWidgets(result) ==
    <<"metric_pm", "metric_level">>
    \o (IF result.action = "ACTIVATE"
        THEN <<"warning", "intensity", "duration", "water", "energy">>
        ELSE <<"success">>)

\* _display_results: one evaluation without a timestamp
display_results(self, pm_level) ==
    LET out == evaluate_and_control(self.controller, pm_level, NoTimestamp)
    IN [controller |-> out.self,
        calls |-> <<CallEntry(pm_level, NoTimestamp, self.controller, out)>>,
        ui |-> ResultWidgets(out.result)]

\* variant: only the lower limit is applied
ClipBelow(x) == IF x < ClipLo THEN ClipLo ELSE x

\* np.clip(x, 5, 200), in hundredths
Clip(x) == IF x < ClipLo THEN ClipLo ELSE IF x > ClipHi THEN ClipHi ELSE x

\* .round(1): hundredths to tenths, ties to the even neighbour
Round1(x) ==
    LET q == x \div 10
        r == x % 10
    IN IF r < 5 THEN q
       ELSE IF r > 5 THEN q + 1
       ELSE IF q % 2 = 0 THEN q ELSE q + 1

\* pm_levels = np.clip(np.random.exponential(...), 5, 200).round(1)
GeneratePmLevels(draws) == [i \in 1..Len(draws) |-> Round1(Clip(draws[i]))]

\* the for loop of auto_demo from index i on
RECURSIVE SimulationLoop(_, _, _, _, _)
SimulationLoop(ctl, levels, i, done_calls, done_results) ==
    IF i > Len(levels)
    THEN [controller |-> ctl, calls |-> done_calls, results |-> done_results]
    ELSE LET pm == levels[i]
             out == evaluate_and_control(ctl, pm, NoTimestamp)
         IN SimulationLoop(out.self, levels, i + 1,
                           Append(done_calls, CallEntry(pm, NoTimestamp, ctl, out)),
                           Append(done_results, <<pm, out.result>>))

\* auto_demo after a click on Run Simulation
auto_demo(self, draws) ==
    LET levels == GeneratePmLevels(draws)
        loop == SimulationLoop(self.controller, levels, 1, <<>>, <<>>)
    IN [controller |-> loop.controller, calls |-> loop.calls,
        pm_levels |-> levels, results |-> loop.results,
        ui |-> <<"subheader", "slider", "info", "progress", "results">>]

(* ------------------------ session specification ----------------------- *)

\* the session opens with one run of main() on the default menu entry
Init ==
    \E case \in CsvCases :
        LET app == NewApp
            out == data_analysis(app, case)
        IN /\ controller = out.controller
           /\ calls = <<>>
           /\ created = 1
           /\ page = "Dataset Analysis"
           /\ button = "none"
           /\ csv_case = case
           /\ ui = out.ui
           /\ raised = out.raised
           /\ pm_levels = <<>>
           /\ results = <<>>

\* main() with menu = "Dataset Analysis"
ShowDatasetAnalysis(case) ==
    /\ created < MaxRuns
    /\ LET app == NewApp
           out == data_analysis(app, case)
       IN /\ controller' = out.controller
          /\ ui' = out.ui
          /\ raised' = out.raised
    /\ created' = created + 1
    /\ page' = "Dataset Analysis"
    /\ button' = "none"
    /\ csv_case' = case
    /\ calls' = <<>>
    /\ pm_levels' = <<>>
    /\ results' = <<>>

\* main() with menu = "Manual Demo", Evaluate not clicked
ShowManualDemo ==
    /\ created < MaxRuns
    /\ controller' = NewApp.controller
    /\ created' = created + 1
    /\ page' = "Manual Demo"
    /\ button' = "none"
    /\ csv_case' = NoCsv
    /\ ui' = <<"subheader", "number_input", "button">>
    /\ raised' = "none"
    /\ calls' = <<>>
    /\ pm_levels' = <<>>
    /\ results' = <<>>

\* main() with menu = "Manual Demo", Evaluate clicked
ClickEvaluate(pm_level) ==
    /\ created < MaxRuns
    /\ LET app == NewApp
           out == display_results(app, pm_level)
       IN /\ controller' = out.controller
          /\ calls' = out.calls
          /\ ui' = <<"subheader", "number_input", "button">> \o out.ui
    /\ created' = created + 1
    /\ page' = "Manual Demo"
    /\ button' = "manual_eval"
    /\ csv_case' = NoCsv
    /\ raised' = "none"
    /\ pm_levels' = <<>>
    /\ results' = <<>>

\* main() with menu = "Automatic Demo", Run Simulation not clicked
ShowAutoDemo ==
    /\ created < MaxRuns
    /\ controller' = NewApp.controller
    /\ created' = created + 1
    /\ page' = "Automatic Demo"
    /\ button' = "none"
    /\ csv_case' = NoCsv
    /\ ui' = <<"subheader", "slider", "button">>
    /\ raised' = "none"
    /\ calls' = <<>>
    /\ pm_levels' = <<>>
    /\ results' = <<>>

\* main() with menu = "Automatic Demo", Run Simulation clicked
ClickRunSimulation(draws) ==
    /\ created < MaxRuns
    /\ LET app == NewApp
           out == auto_demo(app, draws)
       IN /\ controller' = out.controller
          /\ calls' = out.calls
          /\ pm_levels' = out.pm_levels
          /\ results' = out.results
          /\ ui' = out.ui
    /\ created' = created + 1
    /\ page' = "Automatic Demo"
    /\ button' = "Run Simulation"
    /\ csv_case' = NoCsv
    /\ raised' = "none"

\* the slider value and the draws it asks for
DrawSeqs == UNION {[1..samples -> RawDraws] : samples \in 1..MaxSamples}

Next ==
    \/ \E case \in CsvCases : ShowDatasetAnalysis(case)
    \/ ShowManualDemo
    \/ \E pm_level \in ManualInputs : ClickEvaluate(pm_level)
    \/ ShowAutoDemo
    \/ \E draws \in DrawSeqs : ClickRunSimulation(draws)

Spec == Init /\ [][Next]_vars

(* ------------------------------ properties ---------------------------- *)

IsPrefix(s, t) == Len(s) <= Len(t) /\ SubSeq(t, 1, Len(s)) = s

Last(s) == s[Len(s)]

IsActivate(result) == result.action = "ACTIVATE"

\* the records returned so far, in call order
Returned == [i \in 1..Len(calls) |-> calls[i].result]

\* the fields of a record other than its timestamp
DecisionFields(r) ==
    <<r.predicted_pm, r.level, r.action, r.intensity, r.duration,
      r.water_usage, r.energy>>

\* C1: a call returns action ACTIVATE exactly when the reading is above
\* 0.95 x threshold, and then with level MEDIUM or HIGH; a reading at or
\* below 0.95 x threshold returns LOW, NONE and zero intensity, duration,
\* water and energy (47.5 at threshold 50.0 is LOW).
C1_ActivateIffAboveBand ==
    \A i \in 1..Len(calls) :
        LET pm == calls[i].predicted_pm
            t == calls[i].before.threshold_pm
            r == calls[i].result
        IN /\ (r.action = "ACTIVATE") <=> (100 * pm > 95 * t)
           /\ r.action = "ACTIVATE" => r.level \in {"MEDIUM", "HIGH"}
           /\ 100 * pm <= 95 * t =>
                  /\ r.level = "LOW"
                  /\ r.action = "NONE"
                  /\ r.intensity = 0
                  /\ r.duration = 0
                  /\ r.water_usage = 0
                  /\ r.energy = 0
           /\ (t = 500 /\ pm = 475) => r.level = "LOW"

C1_Witness ==
    /\ \E i \in 1..Len(calls) :
           /\ calls[i].before.threshold_pm = 500
           /\ calls[i].predicted_pm = 475
           /\ calls[i].result.action = "NONE"
    /\ \E i \in 1..Len(calls) :
           /\ calls[i].before.threshold_pm = 500
           /\ calls[i].predicted_pm = 476
           /\ calls[i].result.action = "ACTIVATE"

C3_MediumInBand ==
    \A i \in 1..Len(calls) :
        LET pm == calls[i].predicted_pm
            t == calls[i].before.threshold_pm
            r == calls[i].result
        IN (100 * pm > 95 * t /\ pm <= t) =>
               /\ r.level = "MEDIUM"
               /\ r.action = "ACTIVATE"
               /\ r.intensity = 6
               /\ r.duration = 15
               /\ r.water_usage = 90
               /\ r.energy = 45

C3_Witness ==
    /\ \E i \in 1..Len(calls) :
           /\ calls[i].before.threshold_pm = 500
           /\ calls[i].predicted_pm = 476
           /\ calls[i].result.level = "MEDIUM"
    /\ \E i \in 1..Len(calls) :
           /\ calls[i].before.threshold_pm = 500
           /\ calls[i].predicted_pm = 500
           /\ calls[i].result.level = "MEDIUM"

\* C4: the log is the sequence of the records returned by the ACTIVATE
\* calls, in call order; it holds no NONE record, an ACTIVATE call makes it
\* one longer and a NONE call leaves its length alone.
C4_LogIsActivatedCalls ==
    /\ controller.suppression_history = SelectSeq(Returned, IsActivate)
    /\ \A k \in 1..Len(controller.suppression_history) :
           controller.suppression_history[k].action # "NONE"
    /\ \A i \in 1..Len(calls) :
           Len(calls[i].after.suppression_history) =
               Len(calls[i].before.suppression_history)
               + (IF calls[i].result.action = "ACTIVATE" THEN 1 ELSE 0)

C4_Witness ==
    /\ Len(calls) = 3
    /\ calls[1].result.action = "ACTIVATE"
    /\ calls[2].result.action = "NONE"
    /\ calls[3].result.action = "ACTIVATE"
    /\ calls[1].result # calls[3].result
    /\ controller.suppression_history = <<calls[1].result, calls[3].result>>

\* C5: two calls with the same reading on one controller return the same
\* decision fields, whatever was called in between and whatever the log
\* holds.
C5_DecisionDependsOnReadingOnly ==
    \A i, j \in 1..Len(calls) :
        calls[i].predicted_pm = calls[j].predicted_pm =>
            DecisionFields(calls[i].result) = DecisionFields(calls[j].result)

C5_Witness ==
    /\ Len(calls) = 3
    /\ calls[1].predicted_pm = calls[3].predicted_pm
    /\ calls[2].predicted_pm # calls[1].predicted_pm
    /\ calls[1].timestamp # calls[3].timestamp
    /\ calls[1].before.suppression_history = <<>>
    /\ Len(calls[3].before.suppression_history) = 2
    /\ calls[3].result.level = "MEDIUM"

\* C6: the timestamp of the returned record is the caller's label whenever
\* one was supplied, and is 'now' only when none was supplied.
C6_TimestampIsCallerLabel ==
    \A i \in 1..Len(calls) :
        /\ calls[i].timestamp # NoTimestamp =>
               calls[i].result.timestamp = calls[i].timestamp[1]
        /\ calls[i].result.timestamp = "now" => calls[i].timestamp = NoTimestamp

\* C7: in one session the evaluator is created once, with threshold 50.0,
\* and what its log gained at one interaction is still there, unchanged, at
\* the next.
C7_OneEvaluatorPerSession ==
    [][/\ created' = created
       /\ controller'.threshold_pm = AppThreshold
       /\ IsPrefix(controller.suppression_history,
                   controller'.suppression_history)]_vars

\* C8: a call changes nothing in the controller except by appending at most
\* one record to the end of the log: the threshold and the records already
\* logged stay as they are, and a NONE call changes nothing at all.
C8_CallOnlyAppends ==
    [][LET log == controller.suppression_history
           log2 == controller'.suppression_history
       IN /\ controller'.threshold_pm = controller.threshold_pm
          /\ Len(log2) <= Len(log) + 1
          /\ IsPrefix(log, log2)
          /\ Last(calls').result.action = "NONE" => controller' = controller]_vars

C8_Witness ==
    /\ Len(calls) = 3
    /\ calls[1].result.action = "ACTIVATE"
    /\ calls[2].result.action = "ACTIVATE"
    /\ calls[2].result # calls[1].result
    /\ calls[3].result.action = "NONE"
    /\ controller.suppression_history = <<calls[1].result, calls[2].result>>

\* a step of the try block failed on the file
AnalysisFailed ==
    \E i \in 1..Len(TrySteps(csv_case)) : TrySteps(csv_case)[i] = csv_case.fails

\* C9: a failure while loading or analysing the CSV file ends in an error
\* message and no exception leaves data_analysis; the dataset view leaves
\* the evaluator's threshold and log as they were, whether it fails or not.
C9_AnalysisFailureIsReported ==
    page = "Dataset Analysis" =>
        /\ raised = "none"
        /\ AnalysisFailed => Last(ui) = "error"
        /\ controller = NewController(AppThreshold)

C9_Witness ==
    /\ page = "Dataset Analysis"
    /\ csv_case.has_pm
    /\ csv_case.fails = "histogram"
    /\ csv_case.error = "ValueError"
    /\ Last(ui) = "error"
    /\ created > 1

\* the readings of a run that are above 0.95 x the app's threshold
AboveBandIndexes == {i \in 1..Len(pm_levels) : 100 * pm_levels[i] > 95 * AppThreshold}

\* C10: one Run Simulation with n samples calls evaluate_and_control n
\* times, once per generated reading and in generation order; every reading
\* is in [5, 200]; the results list has n entries, each pairing a reading
\* with the record whose predicted_pm is that reading; the log grows by the
\* number of readings above 0.95 x threshold.
C10_SimulationEvaluatesEachReading ==
    button = "Run Simulation" =>
        /\ Len(pm_levels) \in 1..20
        /\ Len(calls) = Len(pm_levels)
        /\ Len(results) = Len(pm_levels)
        /\ \A i \in 1..Len(pm_levels) :
               /\ pm_levels[i] >= 50 /\ pm_levels[i] <= 2000
               /\ calls[i].predicted_pm = pm_levels[i]
               /\ results[i] = <<pm_levels[i], calls[i].result>>
               /\ results[i][2].predicted_pm = pm_levels[i]
        /\ Len(controller.suppression_history)
               - Len(calls[1].before.suppression_history)
           = Cardinality(AboveBandIndexes)

C10_Witness ==
    /\ button = "Run Simulation"
    /\ pm_levels = <<2000, 50, 476>>
    /\ Len(controller.suppression_history) = 2

====
